---- MODULE Spec2Model ----
(***************************************************************************)
(* A model of jacoco_report.py: the JaCoCo -> Cobertura conversion          *)
(* (method_lines, convert_lines, counter/add_counters, convert_class) and   *)
(* the report run (get_changed_files, convert_and_analyze_coverage,         *)
(* display_coverage_results).                                               *)
(*                                                                          *)
(* XML elements are records; an element's attributes are the record's      *)
(* fields, so a missing attribute is a missing field (see Get).  Numeric    *)
(* attribute strings are modelled by the integers int()/float() parse them  *)
(* to.  Text is a sequence of one-character strings.                        *)
(***************************************************************************)
EXTENDS Integers, Sequences, FiniteSets, TLC

VARIABLES
    pc,            \* position of the operation under analysis
    \* method_lines
    jmethods,      \* all_j_methods: the <method> elements of a class
    jlines,        \* all_j_lines: the <line> elements found for the class
    attributed,    \* per method, the list method_lines yields
    \* counter / add_counters
    source,        \* the element whose <counter> children are read
    call,          \* which call was made on source
    result,        \* what counter() returned or raised
    target,        \* the attributes add_counters set on its target
    \* convert_lines
    c_lines,       \* the <line> elements convert_lines emitted
    \* convert_class
    j_package,     \* the <package> element: its <sourcefile> children
    j_class,       \* the <class> element: name, methods, counters
    c_class,       \* the converted <class> element, or the exception raised
    \* the report run
    args,          \* parsed command line
    env,           \* what the run meets: the XML file, git, the Cobertura data
    changed_files, \* get_changed_files' return value
    idx,           \* position of the loop over changed_files
    coverage_data, \* rows collected by the loop
    out,           \* lines printed to stdout, in order
    err,           \* lines printed to stderr, in order
    exit_code      \* the process's exit status, -1 while it runs

varsMethodLines == <<jmethods, jlines, attributed>>
varsCounter == <<source, call, result, target>>
varsClass == <<j_package, j_class, c_class>>
varsRun == <<args, env, changed_files, idx, coverage_data, out, err, exit_code>>

vars == <<pc, varsMethodLines, varsCounter, c_lines, varsClass, varsRun>>

\* the variables of the operations a specification does not exercise
IdleMethodLines == jmethods = <<>> /\ jlines = <<>> /\ attributed = <<>>
IdleCounter == source = <<>> /\ call = "" /\ result = <<>> /\ target = <<>>
IdleConvertLines == c_lines = <<>>
IdleClass == j_package = <<>> /\ j_class = <<>> /\ c_class = <<>>
IdleRun ==
    /\ args = <<>> /\ env = <<>> /\ changed_files = <<>> /\ idx = 0
    /\ coverage_data = <<>> /\ out = <<>> /\ err = <<>> /\ exit_code = -1

----------------------------------------------------------------------------
(* Bounds of the model *)

MaxLine == 2
MaxMethods == 3
MaxLines == 2
MaxCount == 2
MaxCounters == 2
MaxBranches == 30
MaxClassLine == 2
MaxFileLines == 1
MaxEntries == 2
MaxDiffLines == 2

----------------------------------------------------------------------------
(* Helpers for sequences *)

SeqsUpTo(S, n) == UNION {[1..k -> S] : k \in 0..n}

RangeOf(s) == {s[i] : i \in DOMAIN s}

\* dict.get(key, default) on an element's attributes
Get(attrib, key, default) == IF key \in DOMAIN attrib THEN attrib[key] ELSE default

\* min() of a non-empty list
Min(s) == CHOOSE x \in RangeOf(s) : \A y \in RangeOf(s) : x <= y

----------------------------------------------------------------------------
(* Line Mapper: method_lines *)

\* the literal end_line takes when no method starts later
END_LINE == 99999999

\* variant: a method starting on the same line counts as later
line_is_after_ge(jm, start_line) == Get(jm, "line", 0) >= start_line

line_is_after(jm, start_line) == Get(jm, "line", 0) > start_line

\* variant: the range includes end_line
method_lines_inclusive(jmethod, all_methods, all_lines) ==
    LET start_line == Get(jmethod, "line", 0)
        after(jm)  == line_is_after(jm, start_line)
        larger     == [i \in DOMAIN SelectSeq(all_methods, after) |->
                          Get(SelectSeq(all_methods, after)[i], "line", 0)]
        end_line   == IF Len(larger) # 0 THEN Min(larger) ELSE END_LINE
        keep(jline) == start_line <= jline.nr /\ jline.nr <= end_line
    IN  SelectSeq(all_lines, keep)

method_lines(jmethod, all_methods, all_lines) ==
    LET start_line == Get(jmethod, "line", 0)
        after(jm)  == line_is_after(jm, start_line)
        larger     == [i \in DOMAIN SelectSeq(all_methods, after) |->
                          Get(SelectSeq(all_methods, after)[i], "line", 0)]
        end_line   == IF Len(larger) # 0 THEN Min(larger) ELSE END_LINE
        keep(jline) == start_line <= jline.nr /\ jline.nr < end_line
    IN  SelectSeq(all_lines, keep)

----------------------------------------------------------------------------
(* Inputs of the method_lines specification *)

StartLines == 0..MaxLine

LineNrs == (0..MaxLine) \cup {END_LINE - 1, END_LINE}

\* a <method> element: the "line" attribute may be missing
JMethods == {[name |-> "m"]} \cup {[name |-> "m", line |-> n] : n \in StartLines}

\* a <line> element of these inputs carries no branches
JLineOf(n) == [nr |-> n, mb |-> 0, cb |-> 0, ci |-> 1]

JLines == {JLineOf(n) : n \in LineNrs}

\* the class of the attribution example: methods at 10, 25, 25, 40, lines 1..50
ExampleMethods == <<[name |-> "m", line |-> 10], [name |-> "m", line |-> 25],
                    [name |-> "m", line |-> 25], [name |-> "m", line |-> 40]>>

ExampleLines == [n \in 1..50 |-> JLineOf(n)]

InitMethodLines ==
    /\ pc = "start"
    /\ \/ /\ jmethods \in SeqsUpTo(JMethods, MaxMethods) \ {<<>>}
          /\ jlines \in SeqsUpTo(JLines, MaxLines)
       \/ /\ jmethods = ExampleMethods
          /\ jlines = ExampleLines
    /\ attributed = <<>>
    /\ IdleCounter /\ IdleConvertLines /\ IdleClass /\ IdleRun

\* method_lines applied to every method of the class, as the loop of
\* convert_class applies it
AttributeLines ==
    /\ pc = "start"
    /\ attributed' = [i \in DOMAIN jmethods |-> method_lines(jmethods[i], jmethods, jlines)]
    /\ pc' = "done"
    /\ UNCHANGED <<jmethods, jlines, varsCounter, c_lines, varsClass, varsRun>>

NextMethodLines == AttributeLines

SpecMethodLines == InitMethodLines /\ [][NextMethodLines]_vars

----------------------------------------------------------------------------
(* Properties of method_lines *)

StartOf(i) == Get(jmethods[i], "line", 0)

LaterStarts(i) == {s \in {StartOf(j) : j \in DOMAIN jmethods} : s > StartOf(i)}

\* nr lies from method i's start line up to the next later start line, if any
InOpenRange(i, nr) == StartOf(i) <= nr /\ \A s \in LaterStarts(i) : nr < s

\* the same, with the range of a method that no method follows ending at END_LINE
InCappedRange(i, nr) == InOpenRange(i, nr) /\ (LaterStarts(i) = {} => nr < END_LINE)

Yields(i, k) == jlines[k] \in RangeOf(attributed[i])

ExampleAttribution ==
    (jmethods = ExampleMethods /\ jlines = ExampleLines) =>
        /\ attributed[1] = SubSeq(ExampleLines, 10, 24)
        /\ attributed[2] = SubSeq(ExampleLines, 25, 39)
        /\ attributed[3] = SubSeq(ExampleLines, 25, 39)
        /\ attributed[4] = SubSeq(ExampleLines, 40, 50)

C2_NoOverlap ==
    pc = "done" =>
        \A i, j \in DOMAIN jmethods :
            i # j => RangeOf(attributed[i]) \cap RangeOf(attributed[j]) = {}

\* C2 amended: the ranges of two methods with different start lines do not
\* overlap; two methods with the same start line are attributed the same lines.
C2_NoOverlapDistinctStarts ==
    pc = "done" =>
        \A i, j \in DOMAIN jmethods :
            /\ StartOf(i) # StartOf(j) =>
                  RangeOf(attributed[i]) \cap RangeOf(attributed[j]) = {}
            /\ StartOf(i) = StartOf(j) => attributed[i] = attributed[j]

C2_Witness ==
    /\ pc = "done"
    /\ \E i, j, k \in DOMAIN jmethods :
          /\ i # j /\ StartOf(i) = StartOf(j) /\ StartOf(i) # StartOf(k)
          /\ attributed[i] # <<>> /\ attributed[j] # <<>> /\ attributed[k] # <<>>

----------------------------------------------------------------------------
(* Counter Aggregator: fraction, sum, counter, add_counters *)

RECURSIVE Gcd(_, _)
Gcd(a, b) == IF b = 0 THEN a ELSE Gcd(b, a % b)

\* The number n/d (d > 0) a call returned: the float the code computes is
\* modelled by the rational it denotes, in lowest terms; str() of it is the
\* text of that number.
Value(n, d) == [exc |-> "none", num |-> n \div Gcd(n, d), den |-> d \div Gcd(n, d)]

\* A call that raised instead of returning
Raised(e) == [exc |-> e, num |-> 0, den |-> 1]

\* covered / (covered + missed) on floats: 0.0 / 0.0 raises
fraction(covered, missed) ==
    IF covered + missed = 0
    THEN Raised("ZeroDivisionError")
    ELSE Value(covered, covered + missed)

sum(covered, missed) == Value(covered + missed, 1)

Apply(operation, covered, missed) ==
    IF operation = "fraction" THEN fraction(covered, missed) ELSE sum(covered, missed)

\* variant: the last counter of the type is used
counter_last(src, type, operation) ==
    LET cs == src.counter
        match(ct) == ct.type = type
        found == SelectSeq(cs, match)
    IN  IF found # <<>>
        THEN Apply(operation, found[Len(found)].covered, found[Len(found)].missed)
        ELSE Value(0, 1)

\* src.counter are the <counter> children of src, in document order
counter(src, type, operation) ==
    LET cs == src.counter
        match(ct) == ct.type = type
        found == SelectSeq(cs, match)
    IN  IF found # <<>>
        THEN Apply(operation, Head(found).covered, Head(found).missed)
        ELSE Value(0, 1)

\* The attributes set on the target and the exception that ended the call,
\* if any: the three attributes are set in order, so a raise leaves the
\* earlier ones set.
add_counters(src, tgt) ==
    LET lr == counter(src, "LINE", "fraction")
        br == counter(src, "BRANCH", "fraction")
        cx == counter(src, "COMPLEXITY", "sum")
    IN  IF lr.exc # "none" THEN [attrib |-> tgt, exc |-> lr.exc]
        ELSE IF br.exc # "none"
             THEN [attrib |-> ("line-rate" :> lr) @@ tgt, exc |-> br.exc]
        ELSE [attrib |-> ("line-rate" :> lr) @@ ("branch-rate" :> br)
                             @@ ("complexity" :> cx) @@ tgt,
              exc |-> "none"]

CounterTypes == {"LINE", "BRANCH", "COMPLEXITY"}

JCounters ==
    [type : CounterTypes, covered : 0..MaxCount, missed : 0..MaxCount]

InitCounter ==
    /\ pc = "start"
    /\ source \in [counter : SeqsUpTo(JCounters, MaxCounters)]
    /\ call = ""
    /\ result = <<>>
    /\ target = <<>>
    /\ IdleMethodLines /\ IdleConvertLines /\ IdleClass /\ IdleRun

\* counter(source, 'LINE') and counter(source, 'BRANCH')
CallCounterRate ==
    /\ pc = "start"
    /\ \E t \in {"LINE", "BRANCH"} :
          /\ call' = t
          /\ result' = counter(source, t, "fraction")
    /\ pc' = "done"
    /\ UNCHANGED <<source, target, varsMethodLines, c_lines, varsClass, varsRun>>

\* counter(source, 'COMPLEXITY', sum)
CallCounterComplexity ==
    /\ pc = "start"
    /\ call' = "COMPLEXITY"
    /\ result' = counter(source, "COMPLEXITY", "sum")
    /\ pc' = "done"
    /\ UNCHANGED <<source, target, varsMethodLines, c_lines, varsClass, varsRun>>

\* add_counters(source, target) on a target with no attributes yet
CallAddCounters ==
    /\ pc = "start"
    /\ call' = "add_counters"
    /\ target' = add_counters(source, <<>>)
    /\ pc' = "done"
    /\ UNCHANGED <<source, result, varsMethodLines, c_lines, varsClass, varsRun>>

NextCounter == CallCounterRate \/ CallCounterComplexity \/ CallAddCounters

SpecCounter == InitCounter /\ [][NextCounter]_vars

----------------------------------------------------------------------------
(* Properties of counter *)

\* the positions in source of the counters of the type asked for
Present(type) == {i \in DOMAIN source.counter : source.counter[i].type = type}

\* the first of them in document order
FirstOf(type) ==
    source.counter[CHOOSE i \in Present(type) : \A j \in Present(type) : i <= j]

TotalOf(c) == c.covered + c.missed

\* C4: for a present LINE or BRANCH counter with covered=c and missed=m,
\* counter() returns a value (never fails): 1.0 when c+m = 0 and c/(c+m)
\* when c+m > 0.
C4_RateOfPresentCounter ==
    (pc = "done" /\ call \in {"LINE", "BRANCH"} /\ Present(call) # {}) =>
        /\ result.exc = "none"
        /\ TotalOf(FirstOf(call)) = 0 => (result.num = 1 /\ result.den = 1)
        /\ TotalOf(FirstOf(call)) > 0 =>
              result.num * TotalOf(FirstOf(call)) = FirstOf(call).covered * result.den

\* C5: with no counter of the requested type counter() returns 0.0 (line-rate,
\* branch-rate and complexity alike); with a COMPLEXITY counter present,
\* complexity is covered+missed, a count and never a ratio; of several
\* counters of one type the first in document order is the one used.
C5_AbsentAndComplexity ==
    (pc = "done" /\ call \in CounterTypes) =>
        /\ Present(call) = {} =>
              (result.exc = "none" /\ result.num = 0 /\ result.den = 1)
        /\ (call = "COMPLEXITY" /\ Present(call) # {}) =>
              /\ result.exc = "none"
              /\ result.num = TotalOf(FirstOf(call))
              /\ result.den = 1
        /\ (call # "COMPLEXITY" /\ Present(call) # {} /\ TotalOf(FirstOf(call)) > 0) =>
              /\ result.exc = "none"
              /\ result.num * TotalOf(FirstOf(call)) = FirstOf(call).covered * result.den

C5_Witness ==
    /\ pc = "done"
    /\ call = "COMPLEXITY"
    /\ Cardinality(Present("COMPLEXITY")) = 2
    /\ TotalOf(source.counter[1]) # TotalOf(source.counter[2])
    /\ result.num = TotalOf(source.counter[1])

----------------------------------------------------------------------------
(* Schema Converter: convert_lines *)

DigitChars == <<"0", "1", "2", "3", "4", "5", "6", "7", "8", "9">>

\* str() of a non-negative int: its decimal digits
RECURSIVE str(_)
str(n) == IF n < 10 THEN <<DigitChars[n + 1]>>
          ELSE str(n \div 10) \o <<DigitChars[(n % 10) + 1]>>

\* int(100 * (float(cb) / (float(cb) + float(mb)))) for cb + mb > 0, on IEEE
\* doubles.  The quotient and the product are each rounded to the nearest
\* double and int() truncates.  The product is within 2^-44 of 100*cb/(cb+mb),
\* so truncation gives the floor unless 100*cb/(cb+mb) is a whole number k;
\* then the product is the double 100 * fl(k/100), which is k for every k in
\* 0..100 except 29, 57 and 58, where it is the double just below k
\* (100 * 0.29 = 28.999999999999996) and truncates to k - 1.
percent_int(cb, mb) ==
    LET exact == (100 * cb) \div (cb + mb)
    IN  IF (100 * cb) % (cb + mb) = 0 /\ exact \in {29, 57, 58}
        THEN exact - 1
        ELSE exact

\* the <line> element emitted for one JaCoCo <line>
convert_line(jline) ==
    LET mb == jline.mb
        cb == jline.cb
        ci == jline.ci
        cline == ("number" :> jline.nr) @@ ("hits" :> IF ci > 0 THEN "1" ELSE "0")
        percentage == str(percent_int(cb, mb)) \o <<"%">>
    IN  IF mb + cb > 0
        THEN cline @@ ("branch" :> "true")
                   @@ ("condition-coverage" :>
                          percentage \o <<" ", "(">> \o str(cb) \o <<"/">>
                              \o str(cb + mb) \o <<")">>)
                   @@ ("conditions" :>
                          <<[number |-> "0", type |-> "jump", coverage |-> percentage]>>)
        ELSE cline @@ ("branch" :> "false")

\* the children of the <lines> element added under `into`
convert_lines(j_lines) == [i \in DOMAIN j_lines |-> convert_line(j_lines[i])]

BranchLines == [nr : {1}, mb : 0..MaxBranches, cb : 0..MaxBranches, ci : 0..1]

InitConvertLines ==
    /\ pc = "start"
    /\ jlines \in SeqsUpTo(BranchLines, 1)
    /\ jmethods = <<>>
    /\ attributed = <<>>
    /\ c_lines = <<>>
    /\ IdleCounter /\ IdleClass /\ IdleRun

ConvertLines ==
    /\ pc = "start"
    /\ c_lines' = convert_lines(jlines)
    /\ pc' = "done"
    /\ UNCHANGED <<varsMethodLines, varsCounter, varsClass, varsRun>>

NextConvertLines == ConvertLines

SpecConvertLines == InitConvertLines /\ [][NextConvertLines]_vars

----------------------------------------------------------------------------
(* Properties of convert_lines *)

FloorPercent(cb, mb) == (100 * cb) \div (cb + mb)

\* C6: a converted line with cb+mb > 0 has branch=true, condition-coverage
\* "<p>% (<cb>/<cb+mb>)" with p = floor(100*cb/(cb+mb)) exactly, and exactly
\* one condition, of type "jump" and coverage "<p>%"; with cb+mb = 0 it has
\* branch=false and neither condition-coverage nor conditions; hits is "1"
\* iff ci > 0, else "0".
C6_ConditionCoverage ==
    pc = "done" =>
        /\ Len(c_lines) = Len(jlines)
        /\ \A i \in DOMAIN jlines :
              LET cb == jlines[i].cb
                  mb == jlines[i].mb
                  cl == c_lines[i]
              IN  /\ cl["hits"] = (IF jlines[i].ci > 0 THEN "1" ELSE "0")
                  /\ cb + mb > 0 =>
                        /\ cl["branch"] = "true"
                        /\ cl["condition-coverage"] =
                              str(FloorPercent(cb, mb)) \o <<"%", " ", "(">> \o str(cb)
                                  \o <<"/">> \o str(cb + mb) \o <<")">>
                        /\ Len(cl["conditions"]) = 1
                        /\ cl["conditions"][1].type = "jump"
                        /\ cl["conditions"][1].coverage =
                              str(FloorPercent(cb, mb)) \o <<"%">>
                  /\ cb + mb = 0 =>
                        /\ cl["branch"] = "false"
                        /\ "condition-coverage" \notin DOMAIN cl
                        /\ "conditions" \notin DOMAIN cl

----------------------------------------------------------------------------
(* Schema Converter: guess_filename, find_lines, convert_method, convert_class *)

\* the position of the first ch in text, or Len(text) + 1
FirstIndexOf(text, ch) ==
    IF \E i \in DOMAIN text : text[i] = ch
    THEN CHOOSE i \in DOMAIN text : text[i] = ch /\ \A j \in 1..(i - 1) : text[j] # ch
    ELSE Len(text) + 1

\* the position of the last ch in text, or 0
LastIndexOf(text, ch) ==
    IF \E i \in DOMAIN text : text[i] = ch
    THEN CHOOSE i \in DOMAIN text : text[i] = ch /\ \A j \in (i + 1)..Len(text) : text[j] # ch
    ELSE 0

DotJava == <<".", "j", "a", "v", "a">>

\* re.match('([^$]*)', path_to_class).group(1) + '.java'
guess_filename(path_to_class) ==
    SubSeq(path_to_class, 1, FirstIndexOf(path_to_class, "$") - 1) \o DotJava

\* os.path.basename
basename(path) == SubSeq(path, LastIndexOf(path, "/") + 1, Len(path))

\* str.replace('/', '.')
dotted(text) == [i \in DOMAIN text |-> IF text[i] = "/" THEN "." ELSE text[i]]

RECURSIVE find_lines_from(_, _, _)
find_lines_from(sourcefiles, filename, i) ==
    IF i > Len(sourcefiles) THEN <<>>
    ELSE (IF Get(sourcefiles[i], "name", <<>>) = basename(filename)
          THEN sourcefiles[i].line ELSE <<>>)
         \o find_lines_from(sourcefiles, filename, i + 1)

\* variant: only the first source file of that name is read
find_lines_first(j_pkg, filename) ==
    LET named(sf) == Get(sf, "name", <<>>) = basename(filename)
        found == SelectSeq(j_pkg.sourcefile, named)
    IN  IF found = <<>> THEN <<>> ELSE Head(found).line

\* all <line> elements of the package's <sourcefile> elements named like the file
find_lines(j_pkg, filename) == find_lines_from(j_pkg.sourcefile, filename, 1)

\* the <method> element, or the exception add_counters raised
convert_method(j_method, j_method_lines) ==
    LET named == [name |-> j_method.name, signature |-> j_method.desc]
        counted == add_counters(j_method, named)
    IN  IF counted.exc # "none" THEN [exc |-> counted.exc]
        ELSE [exc |-> "none", attrib |-> counted.attrib,
              lines |-> convert_lines(j_method_lines)]

\* the <class> element, or the exception that ended the conversion
convert_class(j_cls, j_pkg) ==
    LET filename == guess_filename(j_cls.name)
        named == [name |-> dotted(j_cls.name), filename |-> filename]
        all_j_lines == find_lines(j_pkg, filename)
        all_j_methods == j_cls.method
        c_methods == [i \in DOMAIN all_j_methods |->
                        convert_method(all_j_methods[i],
                            method_lines(all_j_methods[i], all_j_methods, all_j_lines))]
        counted == add_counters(j_cls, named)
        failed == {i \in DOMAIN c_methods : c_methods[i].exc # "none"}
    IN  IF failed # {}
        THEN [exc |-> c_methods[CHOOSE i \in failed : \A j \in failed : i <= j].exc]
        ELSE IF counted.exc # "none" THEN [exc |-> counted.exc]
        ELSE [exc |-> "none", attrib |-> counted.attrib, methods |-> c_methods,
              lines |-> convert_lines(all_j_lines)]

\* Inputs of the convert_class specification
ClassNames == {<<"p", "/", "A", "$", "B">>, <<"B">>}

FileNames == {<<"A">> \o DotJava, <<"B">> \o DotJava}

ClassLineNrs == (1..MaxClassLine) \cup {END_LINE}

SourceFiles ==
    [name : FileNames, line : SeqsUpTo({JLineOf(n) : n \in ClassLineNrs}, MaxFileLines)]

Packages ==
    {<<a>> : a \in SourceFiles} \cup {<<a, b>> : a \in SourceFiles, b \in SourceFiles}

ZeroLine == <<[type |-> "LINE", covered |-> 0, missed |-> 0]>>
HalfBranch == <<[type |-> "BRANCH", covered |-> 1, missed |-> 1]>>
ZeroBranch == <<[type |-> "BRANCH", covered |-> 0, missed |-> 0]>>

ClassMethod(cs) ==
    {[name |-> "m", desc |-> "()V", counter |-> c] : c \in cs}
    \cup {[name |-> "m", desc |-> "()V", counter |-> c, line |-> n] :
             c \in cs, n \in 1..MaxClassLine}

ClassMethodLists ==
    {<<m>> : m \in ClassMethod({<<>>, ZeroLine})}
    \cup {<<m, n>> : m \in ClassMethod({<<>>, ZeroLine}), n \in ClassMethod({<<>>})}

InitClass ==
    /\ pc = "start"
    /\ j_package \in [sourcefile : Packages]
    /\ j_class \in [name : ClassNames, method : ClassMethodLists,
                    counter : {HalfBranch, ZeroBranch}]
    /\ c_class = <<>>
    /\ IdleMethodLines /\ IdleCounter /\ IdleConvertLines /\ IdleRun

ConvertClass ==
    /\ pc = "start"
    /\ c_class' = convert_class(j_class, j_package)
    /\ pc' = "done"
    /\ UNCHANGED <<j_package, j_class, varsMethodLines, varsCounter, c_lines, varsRun>>

NextClass == ConvertClass

SpecClass == InitClass /\ [][NextClass]_vars

----------------------------------------------------------------------------
(* Properties of convert_class *)

\* the source file a class of these inputs belongs to
ExpectedFile(name) ==
    IF name = <<"B">> THEN <<"B", ".", "j", "a", "v", "a">>
    ELSE <<"A", ".", "j", "a", "v", "a">>

\* the <line> elements of the report, as <<sourcefile position, line position>>
AllLineSlots ==
    {<<f, k>> \in (DOMAIN j_package.sourcefile) \X (1..MaxFileLines + 1) :
        k \in DOMAIN j_package.sourcefile[f].line}

\* those in a source file named like the class's file
ClassLineSlots ==
    {sl \in AllLineSlots : j_package.sourcefile[sl[1]].name = ExpectedFile(j_class.name)}

SlotNr(sl) == j_package.sourcefile[sl[1]].line[sl[2]].nr

HasZeroTotal(el) ==
    \E t \in {"LINE", "BRANCH"} :
        /\ \E i \in DOMAIN el.counter : el.counter[i].type = t
        /\ LET first == CHOOSE i \in DOMAIN el.counter :
                           /\ el.counter[i].type = t
                           /\ \A j \in 1..(i - 1) : el.counter[j].type # t
           IN  el.counter[first].covered + el.counter[first].missed = 0

Numbers(clines) == {clines[i]["number"] : i \in DOMAIN clines}

\* C3 as stated: converting a report with one package, one class, one method
\* and N source lines yields exactly N <line> elements in the class-level list
\* and exactly N in the method-level list, the class-level line numbers
\* including the method-level ones.
C3_BothListsHaveN ==
    (pc = "done" /\ Len(j_class.method) = 1
        /\ ~HasZeroTotal(j_class) /\ ~HasZeroTotal(j_class.method[1])
        /\ ClassLineSlots = AllLineSlots) =>
        /\ c_class.exc = "none"
        /\ Len(c_class.lines) = Cardinality(AllLineSlots)
        /\ Len(c_class.methods[1].lines) = Cardinality(AllLineSlots)
        /\ Numbers(c_class.methods[1].lines) \subseteq Numbers(c_class.lines)

\* C3 amended: convert_class on the class of a report with one package, one
\* class and one method raises ZeroDivisionError when the method or the class
\* has a LINE or BRANCH counter with covered+missed = 0 (see C4); otherwise the class-level list has
\* exactly one <line> per <line> of the package's source files named like the
\* class's inferred file (N when all N lines are in such files), the
\* method-level list has exactly those of them with
\* startLine <= number < 99999999 (so fewer than N when a line precedes the
\* method's start line), and the class-level line numbers include the
\* method-level ones.
C3_LineLists ==
    (pc = "done" /\ Len(j_class.method) = 1) =>
        IF HasZeroTotal(j_class) \/ HasZeroTotal(j_class.method[1])
        THEN c_class.exc = "ZeroDivisionError"
        ELSE /\ c_class.exc = "none"
             /\ Len(c_class.methods) = 1
             /\ Len(c_class.lines) = Cardinality(ClassLineSlots)
             /\ Len(c_class.methods[1].lines) =
                   Cardinality({sl \in ClassLineSlots :
                       /\ Get(j_class.method[1], "line", 0) <= SlotNr(sl)
                       /\ SlotNr(sl) < END_LINE})
             /\ Numbers(c_class.methods[1].lines) \subseteq Numbers(c_class.lines)

C3_Witness ==
    /\ pc = "done"
    /\ Len(j_class.method) = 1
    /\ c_class.exc = "none"
    /\ Len(c_class.lines) = 2
    /\ Len(c_class.methods[1].lines) = 1
    /\ Cardinality(AllLineSlots) = 2

----------------------------------------------------------------------------
(* Coverage Reporter: display_coverage_results *)

\* A rate is held as its number of hundredths k (the float k/100).
\* times100(k) is twice the double rate*100, so that the doubles next to a
\* whole number can be told from it: 100 * (k/100) on IEEE doubles is exactly
\* k, except that it is the double just below k for k = 29, 57, 58 and the
\* double just above k for k = 7, 14, 28, 55, 56.
times100(k) ==
    IF k \in {29, 57, 58} THEN 2 * k - 1
    ELSE IF k \in {7, 14, 28, 55, 56} THEN 2 * k + 1
    ELSE 2 * k

\* f"{rate*100:.1f}%": one decimal, which is 0 for a whole number of hundredths
percent_text(k) == str(k) \o <<".", "0", "%">>

\* variant: a rate at the threshold counts as low
is_low_or_equal(d, threshold) ==
    times100(d.line_rate) <= 2 * threshold \/ times100(d.branch_rate) <= 2 * threshold

\* d['line_rate']*100 < threshold or d['branch_rate']*100 < threshold
is_low(d, threshold) ==
    times100(d.line_rate) < 2 * threshold \/ times100(d.branch_rate) < 2 * threshold

\* the lines printed for one file of low_coverage
warning_lines(d) ==
    << [kind |-> "warning_file", file |-> d.file],
       [kind |-> "warning_line_rate", text |-> percent_text(d.line_rate)],
       [kind |-> "warning_branch_rate", text |-> percent_text(d.branch_rate)] >>

RECURSIVE warnings_from(_, _)
warnings_from(low_coverage, i) ==
    IF i > Len(low_coverage) THEN <<>>
    ELSE warning_lines(low_coverage[i]) \o warnings_from(low_coverage, i + 1)

\* what display_coverage_results prints, in order
display_coverage_results(data, a) ==
    LET table_data == [i \in DOMAIN data |->
                          <<data[i].file, percent_text(data[i].line_rate),
                            percent_text(data[i].branch_rate), data[i].coverage_link>>]
        low(d) == is_low(d, a.coverage_threshold)
        low_coverage == SelectSeq(data, low)
    IN  << [kind |-> "report_header", base_branch |-> a.base_branch],
           [kind |-> "table", rows |-> table_data, tablefmt |-> a.output_format] >>
        \o (IF low_coverage # <<>>
            THEN <<[kind |-> "warning_header", threshold |-> a.coverage_threshold]>>
                 \o warnings_from(low_coverage, 1)
            ELSE <<>>)

\* Inputs of the display specification
FileA == <<"s", "/", "A">> \o DotJava
FileB == <<"s", "/", "B">> \o DotJava

Rates == {29, 79, 80, 90}

Thresholds == {29, 80}

Entries ==
    [file : {FileA, FileB}, line_rate : Rates, branch_rate : Rates,
     coverage_link : {<<"h">>}]

ArgsWith(roots) ==
    [source_roots : roots, base_branch : {"develop"}, coverage_threshold : Thresholds,
     jacoco_html_dir : {<<"h">>}, output_format : {"grid"}]

InitDisplay ==
    /\ pc = "start"
    /\ args \in ArgsWith({<< <<"s">> >>})
    /\ coverage_data \in SeqsUpTo(Entries, MaxEntries)
    /\ env = <<>> /\ changed_files = <<>> /\ idx = 0
    /\ out = <<>> /\ err = <<>> /\ exit_code = -1
    /\ IdleMethodLines /\ IdleCounter /\ IdleConvertLines /\ IdleClass

DisplayCoverageResults ==
    /\ pc = "start"
    /\ out' = out \o display_coverage_results(coverage_data, args)
    /\ pc' = "done"
    /\ UNCHANGED <<args, env, changed_files, idx, coverage_data, err, exit_code,
                   varsMethodLines, varsCounter, c_lines, varsClass>>

NextDisplay == DisplayCoverageResults

SpecDisplay == InitDisplay /\ [][NextDisplay]_vars

----------------------------------------------------------------------------
(* Properties of display_coverage_results *)

OfKind(k) == LET is(o) == o.kind = k IN SelectSeq(out, is)

\* the files the warnings section lists, in the order printed
ListedFiles == [i \in DOMAIN OfKind("warning_file") |-> OfKind("warning_file")[i].file]

\* the positions of coverage_data whose line or branch rate times 100 is
\* strictly below the threshold
LowPositions ==
    {i \in DOMAIN coverage_data :
        \/ times100(coverage_data[i].line_rate) < 2 * args.coverage_threshold
        \/ times100(coverage_data[i].branch_rate) < 2 * args.coverage_threshold}

\* the i-th smallest element of a set of positions
RECURSIVE Nth(_, _)
Nth(S, i) ==
    LET least == CHOOSE x \in S : \A y \in S : x <= y
    IN  IF i = 1 THEN least ELSE Nth(S \ {least}, i - 1)

\* C7: a file is listed in the warnings section iff line_rate*100 < T or
\* branch_rate*100 < T (strictly); each such file is listed exactly once, in
\* input order; the warnings header is printed iff at least one file
\* qualifies; a file whose line-rate*100 and branch-rate*100 both equal T is
\* not listed.
C7_WarningsStrictlyBelow ==
    pc = "done" =>
        /\ Len(ListedFiles) = Cardinality(LowPositions)
        /\ \A i \in DOMAIN ListedFiles :
              ListedFiles[i] = coverage_data[Nth(LowPositions, i)].file
        /\ Len(OfKind("warning_header")) = (IF LowPositions # {} THEN 1 ELSE 0)
        /\ (\A i \in DOMAIN coverage_data :
               /\ times100(coverage_data[i].line_rate) = 2 * args.coverage_threshold
               /\ times100(coverage_data[i].branch_rate) = 2 * args.coverage_threshold)
           => ListedFiles = <<>>

C7_Witness ==
    /\ pc = "done"
    /\ Len(coverage_data) = 2
    /\ coverage_data[1].line_rate = 80 /\ coverage_data[1].branch_rate = 80
    /\ coverage_data[2].line_rate = 79 /\ coverage_data[2].branch_rate = 90
    /\ args.coverage_threshold = 80
    /\ ListedFiles = <<coverage_data[2].file>>
    /\ Len(OfKind("warning_header")) = 1

----------------------------------------------------------------------------
(* The report run: get_changed_files, convert_and_analyze_coverage *)

\* str.startswith, str.endswith
startswith(text, prefix) ==
    Len(prefix) <= Len(text) /\ SubSeq(text, 1, Len(prefix)) = prefix

endswith(text, suffix) ==
    Len(suffix) <= Len(text)
    /\ SubSeq(text, Len(text) - Len(suffix) + 1, Len(text)) = suffix

\* str.lstrip('/')
RECURSIVE lstrip_slash(_)
lstrip_slash(text) ==
    IF text # <<>> /\ Head(text) = "/" THEN lstrip_slash(Tail(text)) ELSE text

\* str.replace(old, new), old non-empty
RECURSIVE replace(_, _, _)
replace(text, old, new) ==
    IF text = <<>> THEN <<>>
    ELSE IF startswith(text, old)
         THEN new \o replace(SubSeq(text, Len(old) + 1, Len(text)), old, new)
         ELSE <<Head(text)>> \o replace(Tail(text), old, new)

\* os.path.join of two parts
path_join(a, b) ==
    IF b # <<>> /\ Head(b) = "/" THEN b
    ELSE IF a = <<>> \/ a[Len(a)] = "/" THEN a \o b
    ELSE a \o <<"/">> \o b

\* variant: only a negative return code is a failure
diff_failed_negative(rc) == rc < 0

\* result.returncode != 0
diff_failed(rc) == rc # 0

\* variant: every changed file is kept, whatever its extension
java_files_all(stdout_lines) == stdout_lines

\* [f for f in result.stdout.splitlines() if f.endswith('.java')]
java_files(stdout_lines) ==
    LET is_java(f) == endswith(f, DotJava) IN SelectSeq(stdout_lines, is_java)

\* the loop over args.source_roots: the path below the first root that is a
\* prefix of file_path, or <<>> (None) when no root is
RECURSIVE relative_path_from(_, _, _)
relative_path_from(file_path, roots, i) ==
    IF i > Len(roots) THEN <<>>
    ELSE IF startswith(file_path, roots[i])
         THEN lstrip_slash(SubSeq(file_path, Len(roots[i]) + 1, Len(file_path)))
         ELSE relative_path_from(file_path, roots, i + 1)

relative_path_of(file_path, roots) == relative_path_from(file_path, roots, 1)

DotHtml == <<".", "h", "t", "m", "l">>

\* variant: a file the report does not hold gets a row with rates 0
file_pass_no_except(file_path, a, report) ==
    LET relative_path == relative_path_of(file_path, a.source_roots)
    IN  IF relative_path = <<>> THEN [row |-> <<>>, warning |-> <<>>]
        ELSE [row |-> <<[file |-> file_path,
                         line_rate |-> Get(report, relative_path, <<0, 0>>)[1],
                         branch_rate |-> Get(report, relative_path, <<0, 0>>)[2],
                         coverage_link |->
                             path_join(a.jacoco_html_dir,
                                       replace(relative_path, DotJava, DotHtml))]>>,
              warning |-> <<>>]

\* One pass of the loop body for file_path: the row appended and the warning
\* printed to stderr, each <<>> when there is none.  cobertura.line_rate and
\* cobertura.branch_rate raise for a file the report does not hold; the
\* except clause turns that into a warning.
file_pass(file_path, a, report) ==
    LET relative_path == relative_path_of(file_path, a.source_roots)
    IN  IF relative_path = <<>> THEN [row |-> <<>>, warning |-> <<>>]
        ELSE IF relative_path \notin DOMAIN report
        THEN [row |-> <<>>,
              warning |-> <<[kind |-> "lookup_warning", file |-> file_path]>>]
        ELSE [row |-> <<[file |-> file_path,
                         line_rate |-> report[relative_path][1],
                         branch_rate |-> report[relative_path][2],
                         coverage_link |->
                             path_join(a.jacoco_html_dir,
                                       replace(relative_path, DotJava, DotHtml))]>>,
              warning |-> <<>>]

\* Inputs of the run
FileT == <<"t", "/", "A">> \o DotJava
FileTxt == <<"s", "/", "A", ".", "t", "x", "t">>

DiffLines == {FileA, FileB, FileT, FileTxt}

RootLists == { << <<"s">> >>, << <<"u">>, <<"s", "/">> >>, << FileA, <<"s">> >> }

RelFiles == {<<"A">> \o DotJava, <<"B">> \o DotJava}

RatePairs == {<<79, 90>>, <<80, 80>>}

\* what a Cobertura object may hold: the rates of some files, by relative path
Reports == UNION {[known -> RatePairs] : known \in SUBSET RelFiles}

NoEnv == [git_rc |-> -1, git_stdout |-> <<>>, report |-> <<>>]

InitRun ==
    /\ pc = "parse_xml"
    /\ args \in ArgsWith(RootLists)
    /\ env = NoEnv
    /\ changed_files = <<>>
    /\ idx = 0
    /\ coverage_data = <<>>
    /\ out = <<>>
    /\ err = <<>>
    /\ exit_code = -1
    /\ IdleMethodLines /\ IdleCounter /\ IdleConvertLines /\ IdleClass

UnchangedConversion == UNCHANGED <<varsMethodLines, varsCounter, c_lines, varsClass>>

\* ET.parse(args.jacoco_xml): a failure is printed and exits 1
ParseXml ==
    /\ pc = "parse_xml"
    /\ \/ /\ pc' = "convert_root"
          /\ UNCHANGED <<out, exit_code>>
       \/ /\ out' = out \o <<[kind |-> "xml_error"]>>
          /\ exit_code' = 1
          /\ pc' = "exited"
    /\ UNCHANGED <<args, env, changed_files, idx, coverage_data, err>>
    /\ UnchangedConversion

\* convert_root and the writing of the temporary file: nothing is printed; an
\* exception (the ZeroDivisionError of fraction, a missing attribute) is not
\* caught and ends the process with a traceback
ConvertRoot ==
    /\ pc = "convert_root"
    /\ \/ /\ pc' = "get_changed_files"
          /\ UNCHANGED <<err, exit_code>>
       \/ /\ err' = err \o <<[kind |-> "traceback"]>>
          /\ exit_code' = 1
          /\ pc' = "exited"
    /\ UNCHANGED <<args, env, changed_files, idx, coverage_data, out>>
    /\ UnchangedConversion

\* the return codes of `git diff`: success, a failure, a fatal error
ReturnCodes == {0, 1, 128}

\* subprocess.run cannot start git: the exception is not caught
GitNotStarted ==
    /\ pc = "get_changed_files"
    /\ err' = err \o <<[kind |-> "traceback"]>>
    /\ exit_code' = 1
    /\ pc' = "exited"
    /\ UNCHANGED <<args, env, changed_files, idx, coverage_data, out>>
    /\ UnchangedConversion

\* get_changed_files(args.base_branch) and the test of its result
GetChangedFiles ==
    /\ pc = "get_changed_files"
    /\ \E rc \in ReturnCodes, stdout_lines \in SeqsUpTo(DiffLines, MaxDiffLines) :
          /\ env' = [env EXCEPT !.git_rc = rc, !.git_stdout = stdout_lines]
          /\ IF diff_failed(rc)
             THEN /\ out' = out \o <<[kind |-> "diff_error", base_branch |-> args.base_branch],
                                     [kind |-> "git_error"]>>
                  /\ exit_code' = 1
                  /\ pc' = "exited"
                  /\ UNCHANGED changed_files
             ELSE /\ changed_files' = java_files(stdout_lines)
                  /\ IF changed_files' = <<>>
                     THEN /\ out' = out \o <<[kind |-> "no_changes",
                                              base_branch |-> args.base_branch]>>
                          /\ exit_code' = 0
                          /\ pc' = "exited"
                     ELSE /\ pc' = "cobertura"
                          /\ UNCHANGED <<out, exit_code>>
    /\ UNCHANGED <<args, idx, coverage_data, err>>
    /\ UnchangedConversion

\* Cobertura(temp_file.name): a failure is printed and exits 1
LoadCobertura ==
    /\ pc = "cobertura"
    /\ \/ /\ \E report \in Reports : env' = [env EXCEPT !.report = report]
          /\ coverage_data' = <<>>
          /\ idx' = 1
          /\ pc' = "loop"
          /\ UNCHANGED <<out, exit_code>>
       \/ /\ out' = out \o <<[kind |-> "cobertura_error"]>>
          /\ exit_code' = 1
          /\ pc' = "exited"
          /\ UNCHANGED <<env, coverage_data, idx>>
    /\ UNCHANGED <<args, changed_files, err>>
    /\ UnchangedConversion

\* one pass of `for file_path in changed_files`
LoopFile ==
    /\ pc = "loop"
    /\ idx <= Len(changed_files)
    /\ LET pass == file_pass(changed_files[idx], args, env.report)
       IN  /\ coverage_data' = coverage_data \o pass.row
           /\ err' = err \o pass.warning
    /\ idx' = idx + 1
    /\ UNCHANGED <<pc, args, env, changed_files, out, exit_code>>
    /\ UnchangedConversion

\* display_coverage_results(coverage_data, args), then main returns
DisplayResults ==
    /\ pc = "loop"
    /\ idx > Len(changed_files)
    /\ out' = out \o display_coverage_results(coverage_data, args)
    /\ exit_code' = 0
    /\ pc' = "exited"
    /\ UNCHANGED <<args, env, changed_files, idx, coverage_data, err>>
    /\ UnchangedConversion

NextRun ==
    \/ ParseXml
    \/ ConvertRoot
    \/ GitNotStarted
    \/ GetChangedFiles
    \/ LoadCobertura
    \/ LoopFile
    \/ DisplayResults

SpecRun == InitRun /\ [][NextRun]_vars

----------------------------------------------------------------------------
(* Properties of the run *)

Printed(k) == \E i \in DOMAIN out : out[i].kind = k

NoTableNoWarnings ==
    ~Printed("report_header") /\ ~Printed("table") /\ ~Printed("warning_header")
    /\ ~Printed("warning_file")

DiffRan == env.git_rc # -1

\* C8: in every run where the diff succeeds and returns no .java file, the
\* output is exactly the informational message, no table and no warnings
\* section are ever printed, and the run ends with exit code 0.
C8_NoChangedFiles ==
    (DiffRan /\ env.git_rc = 0
        /\ \A i \in DOMAIN env.git_stdout : ~endswith(env.git_stdout[i], DotJava)) =>
        /\ out = <<[kind |-> "no_changes", base_branch |-> args.base_branch]>>
        /\ NoTableNoWarnings
        /\ err = <<>>
        /\ pc = "exited"
        /\ exit_code = 0

C8_Witness ==
    /\ pc = "exited"
    /\ env.git_rc = 0
    /\ env.git_stdout = <<FileTxt>>
    /\ out = <<[kind |-> "no_changes", base_branch |-> "develop"]>>
    /\ exit_code = 0

\* C9: in every run where the diff command fails (non-zero return code) the
\* diagnostic is printed, the process ends with a non-zero exit code, and no
\* table or warnings section is produced at any point of the run.
C9_DiffFailureAborts ==
    (DiffRan /\ env.git_rc # 0) =>
        /\ out = <<[kind |-> "diff_error", base_branch |-> args.base_branch],
                   [kind |-> "git_error"]>>
        /\ NoTableNoWarnings
        /\ pc = "exited"
        /\ exit_code # 0
        /\ exit_code # -1

C9_Witness ==
    /\ pc = "exited"
    /\ env.git_rc = 1
    /\ env.git_stdout # <<>>
    /\ Printed("diff_error")
    /\ exit_code = 1

\* a source root is a prefix of the changed file's path
MatchesRoot(f) ==
    \E i \in DOMAIN args.source_roots : startswith(f, args.source_roots[i])

\* the lookup made for f succeeds: its path below the first matching root is
\* a file of the report
LookupSucceeds(f) ==
    LET first == CHOOSE i \in DOMAIN args.source_roots :
                     /\ startswith(f, args.source_roots[i])
                     /\ \A j \in 1..(i - 1) : ~startswith(f, args.source_roots[j])
        below == SubSeq(f, Len(args.source_roots[first]) + 1, Len(f))
    IN  \E n \in 0..Len(below) :
            /\ \A k \in 1..n : below[k] = "/"
            /\ SubSeq(below, n + 1, Len(below)) \in DOMAIN env.report

\* the changed files among the first n that get a row / a warning
RowFiles(n) ==
    LET rowed(f) == MatchesRoot(f) /\ LookupSucceeds(f)
    IN  SelectSeq(SubSeq(changed_files, 1, n), rowed)

WarnedFiles(n) ==
    LET warned(f) ==
            /\ MatchesRoot(f)
            /\ ~LookupSucceeds(f)
            /\ \E i \in DOMAIN args.source_roots :
                  startswith(f, args.source_roots[i]) /\ f # args.source_roots[i]
                  /\ \A j \in 1..(i - 1) : ~startswith(f, args.source_roots[j])
    IN  SelectSeq(SubSeq(changed_files, 1, n), warned)

FilesOf(rows) == [i \in DOMAIN rows |-> rows[i].file]

TableRows == OfKind("table")[1].rows

\* C10: a failed coverage lookup for one changed file is not fatal: the file
\* gets no row, a warning is logged for it, and every other changed file is
\* still processed; the table holds exactly one row, in changed-file order,
\* for each changed file that matches a configured source root and whose
\* lookup succeeds; files matching no root are skipped without a row.
C10_LookupFailureNotFatal ==
    /\ pc = "loop" =>
          /\ FilesOf(coverage_data) = RowFiles(idx - 1)
          /\ FilesOf(err) = WarnedFiles(idx - 1)
          /\ exit_code = -1
    /\ (pc = "exited" /\ env.git_rc = 0 /\ changed_files # <<>> /\ exit_code = 0) =>
          /\ Len(OfKind("table")) = 1
          /\ [i \in DOMAIN TableRows |-> TableRows[i][1]] = RowFiles(Len(changed_files))
          /\ FilesOf(err) = WarnedFiles(Len(changed_files))
          /\ \A i \in DOMAIN changed_files :
                ~MatchesRoot(changed_files[i]) =>
                    \A r \in DOMAIN TableRows : TableRows[r][1] # changed_files[i]

C10_Witness ==
    /\ pc = "exited"
    /\ exit_code = 0
    /\ Len(changed_files) = 2
    /\ Len(err) = 1
    /\ err[1].file = changed_files[1]
    /\ Printed("table")
    /\ Len(TableRows) = 1
    /\ TableRows[1][1] = changed_files[2]

====
